---- MODULE Spec2Model ----
(***************************************************************************)
(* Model of the semaphore-mtb prover service: the shape validator and the  *)
(* input hash codec of prover/proving_system.go, the Prove/Verify          *)
(* orchestration around the groth16 backend, the /prove request handler of *)
(* server/server.go and the two-listener job lifecycle started by Run.     *)
(***************************************************************************)
EXTENDS Integers, Sequences, FiniteSets, TLC

(* ------------------------------ bounds --------------------------------- *)
\* largest number of identity commitments / merkle proofs in a bundle
MaxBatch == 2
\* largest length of one merkle proof
MaxDepth == 2
\* number of requests a listener is offered
MaxRequests == 2

(* -------------------------- program constants -------------------------- *)
\* width an identity commitment is extended to (proving_system.go:79-80)
IdCommBytes == 32
StatusOK == 200
StatusBadRequest == 400
StatusMethodNotAllowed == 405
StatusInternalServerError == 500

(* ------------------------------ big.Int -------------------------------- *)
(* A big.Int is a sign and a magnitude; the magnitude is a little-endian   *)
(* sequence of limbs without most-significant zero limbs (math/big nat).   *)
(* Limbs are bytes here.                                                   *)
Reverse(s) == [i \in 1..Len(s) |-> s[Len(s) + 1 - i]]

Repeat(b, n) == [i \in 1..n |-> b]

BigInt(neg, abs) == [neg |-> neg, abs |-> abs]

Zero == BigInt(FALSE, <<>>)

\* big.Int.Bytes: the absolute value as a big-endian byte slice
Bytes(x) == Reverse(x.abs)

RECURSIVE StripLeadingZeros(_)
StripLeadingZeros(b) ==
    IF b = <<>> THEN <<>>
    ELSE IF Head(b) = 0 THEN StripLeadingZeros(Tail(b))
    ELSE b

\* big.Int.SetBytes: the bytes read as a big-endian unsigned integer
SetBytes(b) == BigInt(FALSE, Reverse(StripLeadingZeros(b)))

\* binary.Write(buf, binary.BigEndian, uint32)
BigEndianUint32(x) ==
    << (x \div 16777216) % 256, (x \div 65536) % 256, (x \div 256) % 256, x % 256 >>

\* keccak256.Hash, taken as collision-free: the digest is a byte string that
\* determines the hashed string (a marker byte followed by it), so distinct
\* strings have distinct digests and no digest is a small number
Keccak256(d) == <<255>> \o d

(* --------------------------- Parameters -------------------------------- *)
Parameters(ih, si, pre, post, ids, mps) ==
    [InputHash |-> ih, StartIndex |-> si, PreRoot |-> pre, PostRoot |-> post,
     IdComms |-> ids, MerkleProofs |-> mps]

NoError == [kind |-> "nil"]

\* the loop of ValidateShape over p.MerkleProofs, from (one-based) index i;
\* the error carries the zero-based index Go's range yields
RECURSIVE ValidateProofsFrom(_, _, _)
ValidateProofsFrom(mps, i, treeDepth) ==
    IF i > Len(mps) THEN NoError
    ELSE IF Len(mps[i]) # treeDepth
         THEN [kind |-> "wrong size of merkle proof for proof",
               index |-> i - 1, observed |-> Len(mps[i])]
         ELSE ValidateProofsFrom(mps, i + 1, treeDepth)

\* variant: the count of merkle proofs is not checked
ValidateShapeNoProofCount(p, treeDepth, batchSize) ==
    IF Len(p.IdComms) # batchSize
    THEN [kind |-> "wrong number of identity commitments", observed |-> Len(p.IdComms)]
    ELSE ValidateProofsFrom(p.MerkleProofs, 1, treeDepth)

\* Parameters.ValidateShape (lines 39-52)
ValidateShape(p, treeDepth, batchSize) ==
    IF Len(p.IdComms) # batchSize
    THEN [kind |-> "wrong number of identity commitments", observed |-> Len(p.IdComms)]
    ELSE IF Len(p.MerkleProofs) # batchSize
    THEN [kind |-> "wrong number of merkle proofs", observed |-> Len(p.MerkleProofs)]
    ELSE ValidateProofsFrom(p.MerkleProofs, 1, treeDepth)

\* variant: an entry wider than 32 bytes is cut to its low 32 bytes
PadIdCommTruncating(v) ==
    LET idBytes == Bytes(v) IN
    IF Len(idBytes) < IdCommBytes
    THEN Repeat(0, IdCommBytes - Len(idBytes)) \o idBytes
    ELSE SubSeq(idBytes, Len(idBytes) - IdCommBytes + 1, Len(idBytes))

\* one identity commitment as appended to data (lines 77-82)
PadIdComm(v) ==
    LET idBytes == Bytes(v) IN
    IF Len(idBytes) < IdCommBytes
    THEN Repeat(0, IdCommBytes - Len(idBytes)) \o idBytes
    ELSE idBytes

\* the loop over p.IdComms (lines 76-83), from index i
RECURSIVE AppendIdComms(_, _, _)
AppendIdComms(d, ids, i) ==
    IF i > Len(ids) THEN d
    ELSE AppendIdComms(d \o PadIdComm(ids[i]), ids, i + 1)

\* the byte string ComputeInputHash hands to keccak256.Hash (lines 67-83)
HashInput(p) ==
    AppendIdComms(BigEndianUint32(p.StartIndex) \o Bytes(p.PreRoot) \o Bytes(p.PostRoot),
                  p.IdComms, 1)

\* ComputeInputHash: the bundle with InputHash overwritten (lines 84-85)
ComputeInputHash(p) ==
    [p EXCEPT !.InputHash = SetBytes(Keccak256(HashInput(p)))]


(* ------------------------------- state --------------------------------- *)
VARIABLES
    ps,            \* ProvingSystem: [TreeDepth, BatchSize] fixed by Setup
    params,        \* a Parameters bundle (the handler's decoded params)
    shapeErr,      \* what the last ValidateShape call returned
    hashed,        \* ComputeInputHash has run on params
    data,          \* the byte string that call handed to keccak256.Hash
    params2,       \* a second bundle, hashed independently
    hashed2,
    data2,
    req,           \* the request and what its environment answers
    pc,            \* position of ServeHTTP / Prove
    statusWrites,  \* the status codes passed to w.WriteHeader, in order
    body,          \* the response body written
    events,        \* the calls made while serving, in order
    assignment,    \* the MbuCircuit assignment Prove builds
    proof,         \* what Prove returned
    proveErr,
    verifyArg,     \* the inputHash handed to Verify
    verifyErr,
    runPc,         \* position of Run
    jobs,          \* labels of the jobs spawned so far, in order
    startState,    \* per listener: its start goroutine
    server,        \* per listener: the http.Server
    shutdownPc,    \* per listener: its shutdown procedure
    shutdownCount, \* per listener: how often shutdown was invoked
    inflight,      \* per listener: requests being served
    accepted,      \* per listener: requests accepted so far
    combinedPc     \* the composite job's shutdown: the constituent it is at, and its phase

codecVars == <<ps, params, shapeErr, hashed, data, params2, hashed2, data2>>
serveVars == <<req, pc, statusWrites, body, events, assignment, proof, proveErr,
               verifyArg, verifyErr>>
jobVars == <<runPc, jobs, startState, server, shutdownPc, shutdownCount, inflight,
             accepted, combinedPc>>
vars == <<ps, params, shapeErr, hashed, data, params2, hashed2, data2,
          req, pc, statusWrites, body, events, assignment, proof, proveErr,
          verifyArg, verifyErr,
          runPc, jobs, startState, server, shutdownPc, shutdownCount, inflight,
          accepted, combinedPc>>

(* ------------------------------ inputs --------------------------------- *)
One == BigInt(FALSE, <<1>>)
MinusOne == BigInt(TRUE, <<1>>)
\* 0x0101
TwoBytes == BigInt(FALSE, <<1, 1>>)
\* a value whose minimal encoding has n bytes
Wide(n) == BigInt(FALSE, Repeat(7, n))

SeqsUpTo(S, n) == UNION {[1..k -> S] : k \in 0..n}

StartIndexVals == {0, 1, 16909060}
RootVals == {Zero, One, MinusOne, TwoBytes}
IdCommVals == {Zero, One, Wide(IdCommBytes - 2), Wide(IdCommBytes), Wide(IdCommBytes + 1)}
ProofShapes == SeqsUpTo(SeqsUpTo({Zero}, MaxDepth), MaxBatch)

Unset == [kind |-> "unset"]
Nil == [nil |-> TRUE]
Labels == {"metrics server", "prover server"}

CodecIdle ==
    /\ ps = [TreeDepth |-> 0, BatchSize |-> 0]
    /\ params = Parameters(Zero, 0, Zero, Zero, <<>>, <<>>)
    /\ shapeErr = Unset
    /\ hashed = FALSE /\ data = <<>>
    /\ params2 = Parameters(Zero, 0, Zero, Zero, <<>>, <<>>)
    /\ hashed2 = FALSE /\ data2 = <<>>

ServeIdle ==
    /\ req = [method |-> "none"]
    /\ pc = "idle"
    /\ statusWrites = <<>>
    /\ body = Nil
    /\ events = <<>>
    /\ assignment = Nil
    /\ proof = Nil
    /\ proveErr = Unset
    /\ verifyArg = Nil
    /\ verifyErr = Unset

JobsIdle ==
    /\ runPc = "idle"
    /\ jobs = <<>>
    /\ startState = [l \in Labels |-> "none"]
    /\ server = [l \in Labels |-> "new"]
    /\ shutdownPc = [l \in Labels |-> "idle"]
    /\ shutdownCount = [l \in Labels |-> 0]
    /\ inflight = [l \in Labels |-> 0]
    /\ accepted = [l \in Labels |-> 0]
    /\ combinedPc = [at |-> 1, phase |-> "none"]

(* ---------------------- ValidateShape, called directly ----------------- *)
InitShape ==
    /\ ps \in [TreeDepth : 0..MaxDepth, BatchSize : 0..MaxBatch]
    /\ params \in {Parameters(Zero, 0, Zero, Zero, ids, mps) :
                      ids \in SeqsUpTo({Zero}, MaxBatch), mps \in ProofShapes}
    /\ shapeErr = Unset
    /\ hashed = FALSE /\ data = <<>>
    /\ params2 = Parameters(Zero, 0, Zero, Zero, <<>>, <<>>)
    /\ hashed2 = FALSE /\ data2 = <<>>
    /\ ServeIdle /\ JobsIdle

ValidateShapeCall ==
    /\ shapeErr = Unset
    /\ shapeErr' = ValidateShape(params, ps.TreeDepth, ps.BatchSize)
    /\ UNCHANGED <<ps, params, hashed, data, params2, hashed2, data2>>
    /\ UNCHANGED serveVars /\ UNCHANGED jobVars

NextShape == ValidateShapeCall

SpecShape == InitShape /\ [][NextShape]_vars

(* -------------------- ComputeInputHash, called directly ---------------- *)
InitHash ==
    /\ ps = [TreeDepth |-> 0, BatchSize |-> 0]
    /\ params \in {Parameters(Zero, si, pre, post, ids, <<>>) :
                      si \in StartIndexVals, pre \in RootVals, post \in RootVals,
                      ids \in SeqsUpTo(IdCommVals, MaxBatch)}
    /\ shapeErr = Unset
    /\ hashed = FALSE /\ data = <<>>
    /\ params2 = Parameters(Zero, 0, Zero, Zero, <<>>, <<>>)
    /\ hashed2 = FALSE /\ data2 = <<>>
    /\ ServeIdle /\ JobsIdle

ComputeInputHashCall ==
    /\ ~hashed
    /\ data' = HashInput(params)
    /\ params' = ComputeInputHash(params)
    /\ hashed' = TRUE
    /\ UNCHANGED <<ps, shapeErr, params2, hashed2, data2>>
    /\ UNCHANGED serveVars /\ UNCHANGED jobVars

NextHash == ComputeInputHashCall

SpecHash == InitHash /\ [][NextHash]_vars

(* ------------- ComputeInputHash on two bundles of one batch size ------- *)
PairStartVals == {0, 1}
PairRootVals == {One, MinusOne, TwoBytes}
PairIdVals == {Zero, One}

InitPair ==
    /\ ps = [TreeDepth |-> 0, BatchSize |-> 0]
    /\ params \in {Parameters(Zero, si, pre, post, ids, <<>>) :
                      si \in PairStartVals, pre \in PairRootVals, post \in PairRootVals,
                      ids \in SeqsUpTo(PairIdVals, MaxBatch)}
    /\ params2 \in {Parameters(ih, si, pre, post, ids, mps) :
                      ih \in {Zero, One}, si \in PairStartVals,
                      pre \in PairRootVals, post \in PairRootVals,
                      ids \in [1..Len(params.IdComms) -> PairIdVals],
                      mps \in {<<>>, << <<Zero>> >>}}
    /\ shapeErr = Unset
    /\ hashed = FALSE /\ data = <<>>
    /\ hashed2 = FALSE /\ data2 = <<>>
    /\ ServeIdle /\ JobsIdle

ComputeInputHashCall2 ==
    /\ hashed /\ ~hashed2
    /\ data2' = HashInput(params2)
    /\ params2' = ComputeInputHash(params2)
    /\ hashed2' = TRUE
    /\ UNCHANGED <<ps, shapeErr, params, hashed, data>>
    /\ UNCHANGED serveVars /\ UNCHANGED jobVars

NextPair == ComputeInputHashCall \/ ComputeInputHashCall2

SpecPair == InitPair /\ [][NextPair]_vars


(* ----------------------- properties of the codec ----------------------- *)
\* indices (one-based) of the merkle proofs whose length is not treeDepth
BadProofs(p, treeDepth) ==
    {i \in 1..Len(p.MerkleProofs) : Len(p.MerkleProofs[i]) # treeDepth}

ShapeOK(p, treeDepth, batchSize) ==
    /\ Len(p.IdComms) = batchSize
    /\ Len(p.MerkleProofs) = batchSize
    /\ BadProofs(p, treeDepth) = {}

\* C1: ValidateShape succeeds exactly when both counts equal batchSize and
\* every proof has length treeDepth; otherwise it reports the first violated
\* check (idComms count, merkleProofs count, per-proof length), and a
\* per-proof error names the smallest offending index and its length.
C1_ValidateShape ==
    shapeErr # Unset =>
        LET d == ps.TreeDepth
            b == ps.BatchSize
            bad == BadProofs(params, d)
        IN  /\ (shapeErr = NoError) <=> ShapeOK(params, d, b)
            /\ Len(params.IdComms) # b =>
                   /\ shapeErr.kind = "wrong number of identity commitments"
                   /\ shapeErr.observed = Len(params.IdComms)
            /\ (Len(params.IdComms) = b /\ Len(params.MerkleProofs) # b) =>
                   /\ shapeErr.kind = "wrong number of merkle proofs"
                   /\ shapeErr.observed = Len(params.MerkleProofs)
            /\ (Len(params.IdComms) = b /\ Len(params.MerkleProofs) = b /\ bad # {}) =>
                   /\ shapeErr.kind = "wrong size of merkle proof for proof"
                   /\ shapeErr.index + 1 \in bad
                   /\ \A j \in bad : shapeErr.index + 1 <= j
                   /\ shapeErr.observed = Len(params.MerkleProofs[shapeErr.index + 1])

\* a per-proof error that names the second proof, the first being well-formed
C1_Witness ==
    /\ shapeErr.kind = "wrong size of merkle proof for proof"
    /\ shapeErr.index = 1
    /\ Len(params.MerkleProofs[1]) = ps.TreeDepth

\* big-endian reading of four bytes
Uint32Of(b) == b[1] * 16777216 + b[2] * 65536 + b[3] * 256 + b[4]

\* b is the magnitude of x, most significant byte first, without padding
IsMinimalBigEndian(b, x) ==
    /\ Len(b) = Len(x.abs)
    /\ \A i \in 1..Len(b) : b[i] = x.abs[Len(x.abs) + 1 - i]

\* b is the magnitude of x left-padded with zero bytes to exactly w bytes
IsLeftPadded(b, x, w) ==
    /\ Len(b) = w
    /\ Len(x.abs) <= w
    /\ \A i \in 1..(w - Len(x.abs)) : b[i] = 0
    /\ IsMinimalBigEndian(SubSeq(b, w - Len(x.abs) + 1, w), x)

\* number of bytes the code appends for one identity commitment
IdCommWidth(x) == IF Len(x.abs) < IdCommBytes THEN IdCommBytes ELSE Len(x.abs)

RECURSIVE SumWidths(_, _)
SumWidths(ids, n) == IF n = 0 THEN 0 ELSE SumWidths(ids, n - 1) + IdCommWidth(ids[n])

HeaderLen(p) == 4 + Len(p.PreRoot.abs) + Len(p.PostRoot.abs)

HeaderOK(d, p) ==
    /\ Len(d) >= HeaderLen(p)
    /\ Uint32Of(SubSeq(d, 1, 4)) = p.StartIndex
    /\ IsMinimalBigEndian(SubSeq(d, 5, 4 + Len(p.PreRoot.abs)), p.PreRoot)
    /\ IsMinimalBigEndian(SubSeq(d, 5 + Len(p.PreRoot.abs), HeaderLen(p)), p.PostRoot)

DigestOK(d, p) ==
    /\ p.InputHash.neg = FALSE
    /\ IsMinimalBigEndian(StripLeadingZeros(Keccak256(d)), p.InputHash)

\* C2 as stated: after the header every identity commitment occupies exactly
\* 32 bytes holding its value left-padded with zeros.
C2_Original ==
    hashed =>
        /\ HeaderOK(data, params)
        /\ Len(data) = HeaderLen(params) + IdCommBytes * Len(params.IdComms)
        /\ \A i \in 1..Len(params.IdComms) :
               IsLeftPadded(SubSeq(data, HeaderLen(params) + IdCommBytes * (i - 1) + 1,
                                         HeaderLen(params) + IdCommBytes * i),
                            params.IdComms[i], IdCommBytes)
        /\ DigestOK(data, params)

\* C2 amended: the hashed string is the 4-byte big-endian StartIndex, the
\* minimal big-endian magnitudes of PreRoot and PostRoot, then each identity
\* commitment in order, left-padded with zeros to 32 bytes when its minimal
\* encoding is shorter than 32 bytes and appended unchanged (at its own,
\* longer, width) otherwise; InputHash is the digest read as a big-endian
\* unsigned integer.
C2_Encoding ==
    hashed =>
        /\ HeaderOK(data, params)
        /\ Len(data) = HeaderLen(params) + SumWidths(params.IdComms, Len(params.IdComms))
        /\ \A i \in 1..Len(params.IdComms) :
               LET x == params.IdComms[i]
                   from == HeaderLen(params) + SumWidths(params.IdComms, i - 1)
                   block == SubSeq(data, from + 1, from + IdCommWidth(x))
               IN  IF Len(x.abs) < IdCommBytes
                   THEN IsLeftPadded(block, x, IdCommBytes)
                   ELSE IsMinimalBigEndian(block, x)
        /\ DigestOK(data, params)

\* a hashed bundle holding a 30-byte commitment and one wider than 32 bytes
C2_Witness ==
    /\ hashed
    /\ \E i, j \in 1..Len(params.IdComms) :
           /\ Len(params.IdComms[i].abs) = IdCommBytes - 2
           /\ Len(params.IdComms[j].abs) > IdCommBytes

SameCommitted(p, q) ==
    /\ p.StartIndex = q.StartIndex
    /\ p.PreRoot = q.PreRoot
    /\ p.PostRoot = q.PostRoot
    /\ p.IdComms = q.IdComms

\* number of the four committed fields in which p and q differ, a differing
\* IdComms counting once per differing entry
DiffCount(p, q) ==
    (IF p.StartIndex # q.StartIndex THEN 1 ELSE 0)
    + (IF p.PreRoot # q.PreRoot THEN 1 ELSE 0)
    + (IF p.PostRoot # q.PostRoot THEN 1 ELSE 0)
    + Cardinality({i \in 1..Len(p.IdComms) : p.IdComms[i] # q.IdComms[i]})

\* C7: bundles equal in StartIndex, PreRoot, PostRoot and IdComms get the
\* same InputHash whatever their MerkleProofs and previous InputHash, and
\* bundles differing in exactly one of those fields (one entry of IdComms)
\* hash different byte strings.
C7_DependsOnCommitted ==
    (hashed /\ hashed2) =>
        /\ SameCommitted(params, params2) => params.InputHash = params2.InputHash
        /\ DiffCount(params, params2) = 1 => data # data2

\* C10: for one batch size, bundles that differ in any of StartIndex,
\* PreRoot, PostRoot or IdComms never hash the same byte string.
C10_Injective ==
    (hashed /\ hashed2 /\ Len(params.IdComms) = Len(params2.IdComms)) =>
        (~SameCommitted(params, params2) => data # data2)


(* ------------------------- Prove, Verify, backend ---------------------- *)
\* the index expressions of Prove (lines 125, 131) stay within the slices
IndicesInRange(s, p) ==
    /\ Len(p.IdComms) >= s.BatchSize
    /\ Len(p.MerkleProofs) >= s.BatchSize
    /\ \A i \in 1..s.BatchSize : Len(p.MerkleProofs[i]) >= s.TreeDepth

\* variant: the input hash is recomputed from the bundle
BuildAssignmentRecomputingHash(s, p) ==
    [InputHash |-> ComputeInputHash(p).InputHash,
     StartIndex |-> p.StartIndex,
     PreRoot |-> p.PreRoot,
     PostRoot |-> p.PostRoot,
     IdComms |-> [i \in 1..s.BatchSize |-> p.IdComms[i]],
     MerkleProofs |-> [i \in 1..s.BatchSize |->
                          [j \in 1..s.TreeDepth |-> p.MerkleProofs[i][j]]]]

\* variant: the input hash is left at its zero value
BuildAssignmentDroppingHash(s, p) ==
    [InputHash |-> Zero,
     StartIndex |-> p.StartIndex,
     PreRoot |-> p.PreRoot,
     PostRoot |-> p.PostRoot,
     IdComms |-> [i \in 1..s.BatchSize |-> p.IdComms[i]],
     MerkleProofs |-> [i \in 1..s.BatchSize |->
                          [j \in 1..s.TreeDepth |-> p.MerkleProofs[i][j]]]]

\* the MbuCircuit assignment of Prove (lines 123-141)
BuildAssignment(s, p) ==
    [InputHash |-> p.InputHash,
     StartIndex |-> p.StartIndex,
     PreRoot |-> p.PreRoot,
     PostRoot |-> p.PostRoot,
     IdComms |-> [i \in 1..s.BatchSize |-> p.IdComms[i]],
     MerkleProofs |-> [i \in 1..s.BatchSize |->
                          [j \in 1..s.TreeDepth |-> p.MerkleProofs[i][j]]]]

\* the public-only assignment of Verify (lines 156-159); the fields it
\* leaves out are nil
PublicAssignment(s, inputHash) ==
    [InputHash |-> inputHash,
     IdComms |-> Repeat(Nil, s.BatchSize)]

AssignmentFields ==
    {"InputHash", "StartIndex", "PreRoot", "PostRoot", "IdComms", "MerkleProofs"}

\* frontend.NewWitness rejects an assignment with a required leaf unset;
\* with frontend.PublicOnly() only the public InputHash is required
NewWitnessErr(a, publicOnly) ==
    IF \/ "InputHash" \notin DOMAIN a
       \/ /\ ~publicOnly
          /\ \/ DOMAIN a # AssignmentFields
             \/ \E i \in 1..Len(a.IdComms) : a.IdComms[i] = Nil
    THEN [kind |-> "missing assignment"]
    ELSE NoError

\* the relation compiled from MbuCircuit: the public input hash is the hash
\* of the committed fields, and the batch is a real insertion (opaque here,
\* given by the request's environment)
RelationHolds(a, realInsertion) ==
    /\ realInsertion
    /\ a.InputHash = SetBytes(Keccak256(HashInput(a)))

\* groth16.Prove: a proof for the witness's public input, or an error
Groth16Prove(a, realInsertion) ==
    IF RelationHolds(a, realInsertion)
    THEN [err |-> NoError, proof |-> [public |-> a.InputHash]]
    ELSE [err |-> [kind |-> "constraint is not satisfied"], proof |-> Nil]

\* groth16.Verify: valid exactly for the public input the proof was made for
Groth16Verify(prf, a) ==
    IF prf.public = a.InputHash THEN NoError ELSE [kind |-> "verification failed"]

\* ProvingSystem.Verify (lines 155-165)
Verify(s, inputHash, prf) ==
    LET publicAssignment == PublicAssignment(s, inputHash)
        err == NewWitnessErr(publicAssignment, TRUE)
    IN  IF err # NoError THEN err ELSE Groth16Verify(prf, publicAssignment)

\* variant: the validation error is ignored
AfterValidateIgnoringError(err) == "witness"

\* Prove after ValidateShape returned err (lines 120-122)
AfterValidate(err) == IF err # NoError THEN "proved" ELSE "witness"

(* --------------------------- the /prove handler ------------------------ *)
malformedBodyError(err) ==
    [StatusCode |-> StatusBadRequest, Code |-> "malformed_body", Message |-> err]

\* variant: a failed Prove is answered as a server error
provingErrorAsServerError(err) ==
    [StatusCode |-> StatusInternalServerError, Code |-> "proving_error", Message |-> err]

provingError(err) ==
    [StatusCode |-> StatusBadRequest, Code |-> "proving_error", Message |-> err]

unexpectedError(err) ==
    [StatusCode |-> StatusInternalServerError, Code |-> "unexpected_error", Message |-> err]

\* Error.send (lines 40-50): json.Marshal of a map[string]string cannot
\* fail, so the body is always the error's own code and message
Send(e) ==
    /\ statusWrites' = Append(statusWrites, e.StatusCode)
    /\ body' = [code |-> e.Code, message |-> e.Message]

Methods == {"POST", "GET"}

\* the bundles a request body decodes to
DecodedParams ==
    LET base == {Parameters(Zero, 0, One, TwoBytes, ids, mps) :
                    ids \in SeqsUpTo({One}, MaxBatch), mps \in ProofShapes}
    IN  UNION {{q, [q EXCEPT !.InputHash = One], ComputeInputHash(q)} : q \in base}

Init ==
    /\ ps \in [TreeDepth : 1..MaxDepth, BatchSize : 1..MaxBatch]
    /\ params = Parameters(Zero, 0, Zero, Zero, <<>>, <<>>)
    /\ shapeErr = Unset
    /\ hashed = FALSE /\ data = <<>>
    /\ params2 = Parameters(Zero, 0, Zero, Zero, <<>>, <<>>)
    /\ hashed2 = FALSE /\ data2 = <<>>
    /\ req \in {[method |-> m, readResult |-> "pending", decodeResult |-> "pending",
                 realInsertion |-> FALSE, marshalResult |-> "pending"] : m \in Methods}
    /\ pc = "method"
    /\ statusWrites = <<>>
    /\ body = Nil
    /\ events = <<>>
    /\ assignment = Nil
    /\ proof = Nil
    /\ proveErr = Unset
    /\ verifyArg = Nil
    /\ verifyErr = Unset
    /\ JobsIdle

\* ServeHTTP lines 96-100
CheckMethod ==
    /\ pc = "method"
    /\ IF req.method # "POST"
       THEN /\ statusWrites' = Append(statusWrites, StatusMethodNotAllowed)
            /\ pc' = "done"
       ELSE /\ pc' = "read"
            /\ UNCHANGED statusWrites
    /\ UNCHANGED <<req, body, events, assignment, proof, proveErr, verifyArg, verifyErr>>
    /\ UNCHANGED codecVars /\ UNCHANGED jobVars

\* ServeHTTP lines 101-105
ReadBody ==
    /\ pc = "read"
    /\ \E r \in {"ok", "err"} :
        /\ req' = [req EXCEPT !.readResult = r]
        /\ events' = Append(events, "io.ReadAll")
        /\ IF r = "err"
           THEN Send(malformedBodyError([kind |-> "read error"])) /\ pc' = "done"
           ELSE pc' = "unmarshal" /\ UNCHANGED <<statusWrites, body>>
    /\ UNCHANGED <<assignment, proof, proveErr, verifyArg, verifyErr>>
    /\ UNCHANGED codecVars /\ UNCHANGED jobVars

\* ServeHTTP lines 106-111
Unmarshal ==
    /\ pc = "unmarshal"
    /\ events' = Append(events, "json.Unmarshal")
    /\ \/ /\ req' = [req EXCEPT !.decodeResult = "err"]
          /\ Send(malformedBodyError([kind |-> "invalid json"]))
          /\ pc' = "done"
          /\ UNCHANGED params
       \/ \E p \in DecodedParams, real \in BOOLEAN :
          /\ req' = [req EXCEPT !.decodeResult = "ok", !.realInsertion = real]
          /\ params' = p
          /\ pc' = "validate"
          /\ UNCHANGED <<statusWrites, body>>
    /\ UNCHANGED <<assignment, proof, proveErr, verifyArg, verifyErr>>
    /\ UNCHANGED <<ps, shapeErr, hashed, data, params2, hashed2, data2>>
    /\ UNCHANGED jobVars

\* Prove lines 120-122, entered from ServeHTTP line 112
ProveValidate ==
    /\ pc = "validate"
    /\ events' = Append(events, "ValidateShape")
    /\ LET err == ValidateShape(params, ps.TreeDepth, ps.BatchSize) IN
        /\ shapeErr' = err
        /\ pc' = AfterValidate(err)
        /\ IF err # NoError THEN proveErr' = err ELSE UNCHANGED proveErr
    /\ UNCHANGED <<req, statusWrites, body, assignment, proof, verifyArg, verifyErr>>
    /\ UNCHANGED <<ps, params, hashed, data, params2, hashed2, data2>>
    /\ UNCHANGED jobVars

\* Prove lines 123-145; an index out of range panics
ProveWitness ==
    /\ pc = "witness"
    /\ IF ~IndicesInRange(ps, params)
       THEN /\ pc' = "panic"
            /\ UNCHANGED <<events, assignment, proveErr>>
       ELSE LET a == BuildAssignment(ps, params)
                err == NewWitnessErr(a, FALSE)
            IN  /\ assignment' = a
                /\ events' = Append(events, "frontend.NewWitness")
                /\ IF err # NoError
                   THEN proveErr' = err /\ pc' = "proved"
                   ELSE UNCHANGED proveErr /\ pc' = "backend"
    /\ UNCHANGED <<req, statusWrites, body, proof, verifyArg, verifyErr>>
    /\ UNCHANGED codecVars /\ UNCHANGED jobVars

\* Prove lines 146-152
ProveBackend ==
    /\ pc = "backend"
    /\ events' = Append(events, "groth16.Prove")
    /\ LET r == Groth16Prove(assignment, req.realInsertion) IN
        /\ proveErr' = r.err
        /\ proof' = r.proof
    /\ pc' = "proved"
    /\ UNCHANGED <<req, statusWrites, body, assignment, verifyArg, verifyErr>>
    /\ UNCHANGED codecVars /\ UNCHANGED jobVars

\* ServeHTTP lines 113-116
HandleProveResult ==
    /\ pc = "proved"
    /\ IF proveErr # NoError
       THEN Send(provingError(proveErr)) /\ pc' = "done"
       ELSE pc' = "marshal" /\ UNCHANGED <<statusWrites, body>>
    /\ UNCHANGED <<req, events, assignment, proof, proveErr, verifyArg, verifyErr>>
    /\ UNCHANGED codecVars /\ UNCHANGED jobVars

\* ServeHTTP lines 117-123
MarshalAndRespond ==
    /\ pc = "marshal"
    /\ events' = Append(events, "json.Marshal")
    /\ \E r \in {"ok", "err"} :
        /\ req' = [req EXCEPT !.marshalResult = r]
        /\ IF r = "err"
           THEN Send(unexpectedError([kind |-> "marshal error"]))
           ELSE /\ statusWrites' = Append(statusWrites, StatusOK)
                /\ body' = [proof |-> proof]
    /\ pc' = "done"
    /\ UNCHANGED <<assignment, proof, proveErr, verifyArg, verifyErr>>
    /\ UNCHANGED codecVars /\ UNCHANGED jobVars

\* a holder of the proof calls Verify, with the hash the codec gives for the
\* bundle or with another value
VerifyCall ==
    /\ pc = "done" /\ proof # Nil /\ verifyErr = Unset
    /\ \E h \in {ComputeInputHash(params).InputHash, One} :
        /\ verifyArg' = h
        /\ verifyErr' = Verify(ps, h, proof)
    /\ UNCHANGED <<req, pc, statusWrites, body, events, assignment, proof, proveErr>>
    /\ UNCHANGED codecVars /\ UNCHANGED jobVars

Next ==
    \/ CheckMethod
    \/ ReadBody
    \/ Unmarshal
    \/ ProveValidate
    \/ ProveWitness
    \/ ProveBackend
    \/ HandleProveResult
    \/ MarshalAndRespond
    \/ VerifyCall

Spec == Init /\ [][Next]_vars


(* ---------------------- properties of the served path ------------------ *)
Occurs(e) == \E i \in 1..Len(events) : events[i] = e

\* every occurrence of e1 comes before every occurrence of e2
Precedes(e1, e2) ==
    \A i, j \in 1..Len(events) : (events[i] = e1 /\ events[j] = e2) => i < j

ProveEntered == Occurs("ValidateShape")

ProveFailed == proveErr # NoError /\ proveErr # Unset

\* C3: a finished request has exactly one of the outcomes, decided in this
\* order: non-POST -> 405, empty body, nothing decoded and Prove not called;
\* unreadable or undecodable body -> 400 malformed_body, Prove not called;
\* failed Prove -> 400 proving_error; unserializable proof -> 500
\* unexpected_error; otherwise 200 with the serialized proof. The status is
\* written exactly once.
C3_Outcome ==
    /\ Len(statusWrites) <= 1
    /\ pc = "done" =>
        /\ Len(statusWrites) = 1
        /\ IF req.method # "POST"
           THEN /\ statusWrites[1] = StatusMethodNotAllowed
                /\ body = Nil
                /\ events = <<>>
           ELSE IF req.readResult = "err" \/ req.decodeResult = "err"
           THEN /\ statusWrites[1] = StatusBadRequest
                /\ body.code = "malformed_body"
                /\ ~ProveEntered
           ELSE IF \/ ~ShapeOK(params, ps.TreeDepth, ps.BatchSize)
                   \/ ~RelationHolds(params, req.realInsertion)
           THEN /\ statusWrites[1] = StatusBadRequest
                /\ body.code = "proving_error"
                /\ ProveFailed
           ELSE IF req.marshalResult = "err"
           THEN /\ statusWrites[1] = StatusInternalServerError
                /\ body.code = "unexpected_error"
           ELSE /\ statusWrites[1] = StatusOK
                /\ body = [proof |-> proof]
                /\ proof # Nil

\* a request answered with proving_error after the backend rejected it
C3_Witness ==
    /\ pc = "done"
    /\ body # Nil /\ "code" \in DOMAIN body /\ body.code = "proving_error"
    /\ Occurs("groth16.Prove")

HashSupplied(p) == p.InputHash = ComputeInputHash(p).InputHash

ProveReturned == pc \in {"proved", "marshal", "done"} /\ ProveEntered

VerifiedAgainstCodec ==
    /\ verifyErr # Unset
    /\ verifyArg = ComputeInputHash(params).InputHash

C5_ValidateFirst ==
    /\ (Occurs("frontend.NewWitness") \/ Occurs("groth16.Prove") \/ pc \in {"witness", "backend"}) =>
        /\ ProveEntered
        /\ shapeErr = NoError
        /\ ShapeOK(params, ps.TreeDepth, ps.BatchSize)
        /\ Precedes("ValidateShape", "frontend.NewWitness")
        /\ Precedes("ValidateShape", "groth16.Prove")
    /\ (ProveReturned /\ ~ShapeOK(params, ps.TreeDepth, ps.BatchSize)) =>
        /\ proveErr = shapeErr
        /\ proveErr.kind \in {"wrong number of identity commitments",
                              "wrong number of merkle proofs",
                              "wrong size of merkle proof for proof"}
        /\ proof = Nil
        /\ assignment = Nil
        /\ ~Occurs("frontend.NewWitness")
        /\ ~Occurs("groth16.Prove")
    /\ pc # "panic"

\* Prove returned a validation error for a bundle with too many commitments
C5_Witness ==
    /\ ProveReturned
    /\ Len(params.IdComms) > ps.BatchSize
    /\ proveErr.kind = "wrong number of identity commitments"

MetricsLabel == "metrics server"
ProverLabel == "prover server"

\* variant: the metrics job is handed over twice, the prover job not at all
CombinedJobsMetricsTwice == <<MetricsLabel, MetricsLabel>>

\* the jobs Run hands to CombineJobs, in order (line 88)
CombinedJobs == <<MetricsLabel, ProverLabel>>

InitJobs ==
    /\ CodecIdle /\ ServeIdle
    /\ runPc = "spawn_metrics"
    /\ jobs = <<>>
    /\ startState = [l \in Labels |-> "none"]
    /\ server = [l \in Labels |-> "new"]
    /\ shutdownPc = [l \in Labels |-> "idle"]
    /\ shutdownCount = [l \in Labels |-> 0]
    /\ inflight = [l \in Labels |-> 0]
    /\ accepted = [l \in Labels |-> 0]
    /\ combinedPc = [at |-> 1, phase |-> "none"]

\* SpawnJob(start, shutdown): start begins to run on its own and the call
\* returns at once, the shutdown procedure being kept for later
SpawnJob(l) ==
    /\ jobs' = Append(jobs, l)
    /\ startState' = [startState EXCEPT ![l] = "spawned"]

\* Run lines 76-80
RunSpawnMetrics ==
    /\ runPc = "spawn_metrics"
    /\ SpawnJob(MetricsLabel)
    /\ runPc' = "spawn_prover"
    /\ UNCHANGED <<server, shutdownPc, shutdownCount, inflight, accepted, combinedPc>>
    /\ UNCHANGED codecVars /\ UNCHANGED serveVars

\* Run lines 82-86
RunSpawnProver ==
    /\ runPc = "spawn_prover"
    /\ SpawnJob(ProverLabel)
    /\ runPc' = "combine"
    /\ UNCHANGED <<server, shutdownPc, shutdownCount, inflight, accepted, combinedPc>>
    /\ UNCHANGED codecVars /\ UNCHANGED serveVars

\* Run line 88: the composite job exists, its shutdown not yet asked for
RunCombine ==
    /\ runPc = "combine"
    /\ runPc' = "returned"
    /\ combinedPc' = [at |-> 1, phase |-> "idle"]
    /\ UNCHANGED <<jobs, startState, server, shutdownPc, shutdownCount, inflight, accepted>>
    /\ UNCHANGED codecVars /\ UNCHANGED serveVars

\* start of spawnServerJob (lines 58-63): ListenAndServe listens, or returns
\* ErrServerClosed at once when the server was shut down before
StartListen(l) ==
    /\ startState[l] = "spawned"
    /\ IF server[l] = "new"
       THEN /\ server' = [server EXCEPT ![l] = "listening"]
            /\ startState' = [startState EXCEPT ![l] = "serving"]
       ELSE /\ startState' = [startState EXCEPT ![l] = "returned"]
            /\ UNCHANGED server
    /\ UNCHANGED <<runPc, jobs, shutdownPc, shutdownCount, inflight, accepted, combinedPc>>
    /\ UNCHANGED codecVars /\ UNCHANGED serveVars

\* ListenAndServe returns ErrServerClosed once Shutdown was called; start
\* ends without a panic (lines 59-62)
StartReturn(l) ==
    /\ startState[l] = "serving"
    /\ server[l] = "shutdown"
    /\ startState' = [startState EXCEPT ![l] = "returned"]
    /\ UNCHANGED <<runPc, jobs, server, shutdownPc, shutdownCount, inflight, accepted, combinedPc>>
    /\ UNCHANGED codecVars /\ UNCHANGED serveVars

\* a listening server accepts a request and begins to serve it
Accept(l) ==
    /\ server[l] = "listening"
    /\ accepted[l] < MaxRequests
    /\ accepted' = [accepted EXCEPT ![l] = @ + 1]
    /\ inflight' = [inflight EXCEPT ![l] = @ + 1]
    /\ UNCHANGED <<runPc, jobs, startState, server, shutdownPc, shutdownCount, combinedPc>>
    /\ UNCHANGED codecVars /\ UNCHANGED serveVars

\* a handler (for the prover server, a Prove call) runs to its end
Complete(l) ==
    /\ inflight[l] > 0
    /\ inflight' = [inflight EXCEPT ![l] = @ - 1]
    /\ UNCHANGED <<runPc, jobs, startState, server, shutdownPc, shutdownCount, accepted, combinedPc>>
    /\ UNCHANGED codecVars /\ UNCHANGED serveVars

\* the holder of the composite job asks for its shutdown
RequestShutdown ==
    /\ runPc = "returned"
    /\ combinedPc.phase = "idle"
    /\ combinedPc' = [combinedPc EXCEPT !.phase = "invoke"]
    /\ UNCHANGED <<runPc, jobs, startState, server, shutdownPc, shutdownCount, inflight, accepted>>
    /\ UNCHANGED codecVars /\ UNCHANGED serveVars

\* shutdown of spawnServerJob begins (lines 64-66): server.Shutdown is
\* called, which closes the listener so that nothing more is accepted
ShutdownBegin(l) ==
    /\ shutdownCount' = [shutdownCount EXCEPT ![l] = @ + 1]
    /\ shutdownPc' = [shutdownPc EXCEPT ![l] = "draining"]
    /\ server' = [server EXCEPT ![l] = "shutdown"]

\* the composite's shutdown invokes the shutdown procedure of the
\* constituent it is at
CombinedInvoke ==
    /\ combinedPc.phase = "invoke"
    /\ ShutdownBegin(CombinedJobs[combinedPc.at])
    /\ combinedPc' = [combinedPc EXCEPT !.phase = "wait"]
    /\ UNCHANGED <<runPc, jobs, startState, inflight, accepted>>
    /\ UNCHANGED codecVars /\ UNCHANGED serveVars

\* variant: Shutdown gives up at a deadline, whatever is in flight
ShutdownMayReturnAtDeadline(l) == TRUE

\* server.Shutdown(context.Background()) returns when no connection is
\* active any more; the context never expires (line 66)
ShutdownMayReturn(l) == inflight[l] = 0

\* lines 66-71
ShutdownReturn(l) ==
    /\ shutdownPc[l] = "draining"
    /\ ShutdownMayReturn(l)
    /\ shutdownPc' = [shutdownPc EXCEPT ![l] = "returned"]
    /\ UNCHANGED <<runPc, jobs, startState, server, shutdownCount, inflight, accepted, combinedPc>>
    /\ UNCHANGED codecVars /\ UNCHANGED serveVars

\* the constituent's shutdown has returned: on to the next, or done
CombinedAdvance ==
    /\ combinedPc.phase = "wait"
    /\ shutdownPc[CombinedJobs[combinedPc.at]] = "returned"
    /\ combinedPc' = IF combinedPc.at = Len(CombinedJobs)
                     THEN [combinedPc EXCEPT !.phase = "done"]
                     ELSE [at |-> combinedPc.at + 1, phase |-> "invoke"]
    /\ UNCHANGED <<runPc, jobs, startState, server, shutdownPc, shutdownCount, inflight, accepted>>
    /\ UNCHANGED codecVars /\ UNCHANGED serveVars

NextJobs ==
    \/ RunSpawnMetrics
    \/ RunSpawnProver
    \/ RunCombine
    \/ RequestShutdown
    \/ CombinedInvoke
    \/ CombinedAdvance
    \/ \E l \in Labels : StartListen(l)
    \/ \E l \in Labels : StartReturn(l)
    \/ \E l \in Labels : Accept(l)
    \/ \E l \in Labels : Complete(l)
    \/ \E l \in Labels : ShutdownReturn(l)

SpecJobs == InitJobs /\ [][NextJobs]_vars

\* Every step of the service itself is eventually taken when it stays
\* possible. Nothing obliges a client to send a request, the holder of the
\* composite to ask for shutdown, or a handler to finish: no timeout bounds
\* a Prove call.
SpecJobsFair ==
    /\ InitJobs /\ [][NextJobs]_vars
    /\ WF_vars(RunSpawnMetrics) /\ WF_vars(RunSpawnProver) /\ WF_vars(RunCombine)
    /\ WF_vars(CombinedInvoke) /\ WF_vars(CombinedAdvance)
    /\ \A l \in Labels : WF_vars(StartListen(l))
    /\ \A l \in Labels : WF_vars(StartReturn(l))
    /\ \A l \in Labels : WF_vars(ShutdownReturn(l))

(* --------------------- properties of the lifecycle --------------------- *)
\* C6: the shutdown of the composite job returned by Run invokes the
\* shutdown procedure of the metrics job and of the prover job exactly once
\* each; and SpawnJob returns with the start action started, not finished.
C6_CombinedShutdown ==
    /\ [](/\ \A l \in Labels : shutdownCount[l] <= 1
          /\ combinedPc.phase = "done" =>
                \A l \in Labels : shutdownCount[l] = 1 /\ shutdownPc[l] = "returned")
    /\ [][\A l \in Labels :
            (startState[l] = "none" /\ startState'[l] # "none") =>
                (startState'[l] = "spawned" /\ runPc' # runPc)]_vars

\* the composite's shutdown has finished after both listeners served
C6_Witness ==
    /\ combinedPc.phase = "done"
    /\ \A l \in Labels : accepted[l] > 0 /\ shutdownCount[l] = 1

\* C9 as stated: a shutdown procedure that was invoked eventually returns,
\* even when a request in flight never completes.
C9_Original ==
    \A l \in Labels : (shutdownPc[l] = "draining") ~> (shutdownPc[l] = "returned")

\* C9 amended: once a listener's shutdown procedure is invoked the listener
\* accepts no new request, and the procedure returns only when no request of
\* that listener is in flight any more: it waits for them without a bound
\* and never cancels one.
C9_ShutdownDrains ==
    /\ [](\A l \in Labels :
            /\ shutdownPc[l] # "idle" => server[l] = "shutdown"
            /\ shutdownPc[l] = "returned" => inflight[l] = 0)
    /\ [][\A l \in Labels :
            shutdownPc[l] # "idle" =>
                /\ accepted'[l] = accepted[l]
                /\ inflight'[l] <= inflight[l]
                /\ (inflight'[l] < inflight[l] => shutdownPc'[l] = shutdownPc[l])]_vars

\* the prover's shutdown is waiting while a Prove call is in flight
C9_Witness ==
    /\ shutdownPc[ProverLabel] = "draining"
    /\ inflight[ProverLabel] > 0

====
